---- MODULE Spec2Model ----
(***************************************************************************)
(* Roadbook backend (src/app/main.py): a FastAPI service over one SQLite   *)
(* table "journey" (id, name, description, ai_response), with plain CRUD   *)
(* handlers and a chat-create handler that forwards the description to an  *)
(* external AI collaborator and stores the first choice of its reply.      *)
(*                                                                         *)
(* Spec     : requests served one at a time; one action per handler, the   *)
(*            whole handler (validation, AI call, uuid, INSERT/UPDATE/     *)
(*            DELETE, commit, refresh, response) in one step.              *)
(* SpecConc : two update_journey requests on the same id, each with its    *)
(*            own session, interleaved at their query / commit / refresh   *)
(*            statements.                                                  *)
(***************************************************************************)
EXTENDS Naturals, Sequences, FiniteSets, TLC

VARIABLES
    table,      \* the journey table: its rows
    uuidCount,  \* how many uuids uuid.uuid4() has produced so far
    req,        \* the request served last
    resp,       \* its HTTP response
    aiSent,     \* the prompts sent to the AI collaborator while serving it
    origin,     \* history: stored id -> creation path and AI reply text
    deleted,    \* history: ids removed by a successful delete
    pc,         \* SpecConc: each update request's position in update_journey
    loaded,     \* SpecConc: the row each session holds (db_journey)
    ubody,      \* SpecConc: each update request's body
    uresp,      \* SpecConc: each update request's response
    order       \* SpecConc: the requests in the order their commits happened

vars == <<table, uuidCount, req, resp, aiSent, origin, deleted,
          pc, loaded, ubody, uresp, order>>

seqVars == <<table, uuidCount, req, resp, aiSent, origin, deleted>>
concVars == <<pc, loaded, ubody, uresp, order>>

(***************************************************************************)
(* Bounds                                                                  *)
(***************************************************************************)
\* uuid.uuid4() is called at most MaxUuid times
MaxUuid == 2

(***************************************************************************)
(* Values                                                                  *)
(***************************************************************************)
\* Optional[str]: None is <<>>, a text s is <<s>>
None == <<>>
Some(s) == <<s>>

Names == {"A", "A2"}
Descs == {"B", "B2"}

\* A JSON body field: a text, absent, or a value that is not text
Text(s) == [kind |-> "str", val |-> s]
Missing == [kind |-> "missing", val |-> ""]
NotText == [kind |-> "object", val |-> ""]

\* mutant of uuid4: the column default evaluated once, at import, instead of
\* per row (default=str(uuid.uuid4()) without the lambda)
uuid4Once(n) == "uuid-1"

\* str(uuid.uuid4()): the n-th uuid drawn; uuids are random 122-bit values,
\* so the n-th differs from all drawn before it and is a non-empty string
uuid4(n) == "uuid-" \o ToString(n)

\* ids a client may put in the path: every uuid, and one that never was one
PathIds == {uuid4(n) : n \in 1..MaxUuid} \cup {"unknown"}

(***************************************************************************)
(* The journey table (class Journey, sqlite)                               *)
(***************************************************************************)
\* a row of the table: the four columns of class Journey
Journey(id, name, description, ai_response) ==
    [id |-> id, name |-> name, description |-> description,
     ai_response |-> ai_response]

Ids(tbl) == {r.id : r \in tbl}

\* id is the primary key: an INSERT of an id already stored raises IntegrityError
PrimaryKeyFree(tbl, id) == id \notin Ids(tbl)

\* db.add(row); db.commit(): INSERT INTO journey
Insert(tbl, row) == tbl \cup {row}

\* mutant of QueryById: the filter on the id left out, first() of the table
QueryNoFilter(tbl, journey_id) ==
    IF tbl = {} THEN {} ELSE {CHOOSE r \in tbl : TRUE}

\* db.query(Journey).filter(Journey.id == journey_id).first(): the rows found
\* (at most one, id being the primary key)
QueryById(tbl, journey_id) == {r \in tbl : r.id = journey_id}

\* db.query(Journey).all()
QueryAll(tbl) == tbl

\* mutant of Delete: db.delete without the db.commit(), lost with the session
DeleteNoCommit(tbl, id) == tbl

\* db.delete(db_journey); db.commit(): DELETE FROM journey WHERE id = ?
Delete(tbl, id) == {r \in tbl : r.id # id}

\* mutant of UpdateAttrs: ai_response assigned too, from a body that has none
UpdateAttrsWithAi(db_journey, name, description) ==
    [db_journey EXCEPT !.name = name, !.description = description,
                       !.ai_response = None]

\* db_journey.name = journey.name; db_journey.description = journey.description:
\* the attributes the handler assigns on the object its session loaded
UpdateAttrs(db_journey, name, description) ==
    [db_journey EXCEPT !.name = name, !.description = description]

\* the columns of the table
Columns == {"id", "name", "description", "ai_response"}

\* db.commit() after the assignments: the session's flush writes
\* UPDATE journey SET <the columns whose value differs from the loaded one>
\* WHERE id = <loaded id>; a column assigned the value it was loaded with has
\* no net change and is left out of the statement
FlushUpdate(tbl, old, new) ==
    {IF r.id = old.id
     THEN [c \in Columns |-> IF new[c] # old[c] THEN new[c] ELSE r[c]]
     ELSE r : r \in tbl}

(***************************************************************************)
(* Validation (class JourneyCreate, checked by FastAPI before the handler) *)
(***************************************************************************)
\* mutant of JourneyCreateErrors: description declared Optional
JourneyCreateErrorsNameOnly(body) ==
    {f \in {"name"} : body[f].kind # "str"}

\* the fields of a body that fail JourneyCreate: name and description must be
\* present and text, ai_response may be absent
JourneyCreateErrors(body) ==
    {f \in {"name", "description"} : body[f].kind # "str"}
    \cup {f \in {"ai_response"} : body[f].kind \notin {"str", "missing"}}

JourneyCreate(body) == JourneyCreateErrors(body) = {}

\* well-formed bodies, one carrying an ai_response of the client's
ValidBodies ==
    {[name |-> Text("A"), description |-> Text("B"), ai_response |-> Missing],
     [name |-> Text("A2"), description |-> Text("B2"), ai_response |-> Missing],
     [name |-> Text("A2"), description |-> Text("B2"),
      ai_response |-> Text("client")]}

\* malformed bodies: name or description missing or not text
InvalidBodies ==
    {[name |-> Missing, description |-> Text("B"), ai_response |-> Missing],
     [name |-> Text("A"), description |-> NotText, ai_response |-> Text("client")]}

Bodies == ValidBodies \cup InvalidBodies

NoBody == [name |-> Missing, description |-> Missing, ai_response |-> Missing]

(***************************************************************************)
(* The AI collaborator (client.chat.complete)                              *)
(***************************************************************************)
\* what a call does: it raises, or it returns a response with its choices
AIOutcomes ==
    {[kind |-> "raise", choices |-> <<>>],
     [kind |-> "reply", choices |-> <<>>],
     [kind |-> "reply", choices |-> <<"">>],
     [kind |-> "reply", choices |-> <<"Bonjour!", "Salut">>]}

NoAI == [kind |-> "none", choices |-> <<>>]

(***************************************************************************)
(* Responses                                                               *)
(***************************************************************************)
Response(status, detail, loc, rows, response, message) ==
    [status |-> status, detail |-> detail, loc |-> loc, rows |-> rows,
     response |-> response, message |-> message]

\* a record (response_model=JourneyResponse) or a list of records
OkRows(rows) == Response(200, "", {}, rows, None, "")
\* raise HTTPException(status_code=404, detail="Journey not found")
NotFound == Response(404, "Journey not found", {}, {}, None, "")
\* FastAPI's RequestValidationError: 422, naming the fields
Unprocessable(body) ==
    Response(422, "validation error", JourneyCreateErrors(body), {}, None, "")
\* an exception no handler catches: 500 Internal Server Error
ServerError(text) == Response(500, text, {}, {}, None, "")

NoResp == Response(0, "", {}, {}, None, "")

\* what a handler leaves behind
Out(tbl, cnt, r, sent) ==
    [table |-> tbl, uuidCount |-> cnt, resp |-> r, aiSent |-> sent]

(***************************************************************************)
(* The handlers                                                            *)
(***************************************************************************)
\* mutant of FirstChoice: choices[-1]
LastChoice(choices) == choices[Len(choices)]

\* chat_response.choices[0].message.content
FirstChoice(choices) == Head(choices)

\* mutant of ChatError: status_code=400
ChatError400(text) == Response(400, text, {}, {}, None, "")

\* except Exception as e: raise HTTPException(status_code=500, detail=str(e))
ChatError(text) == Response(500, text, {}, {}, None, "")

\* mutant of chat_with_mistral: the record stored before the collaborator is
\* called, its ai_response meant to be filled in afterwards
chat_SaveFirst(tbl, cnt, body, ai, fault) ==
    IF ~JourneyCreate(body) THEN Out(tbl, cnt, Unprocessable(body), <<>>)
    ELSE
      LET sent == <<body.description.val>>
          stored == Insert(tbl, Journey(uuid4(cnt + 1), body.name.val,
                                        body.description.val, None))
      IN  IF ai.kind = "raise"
          THEN Out(stored, cnt + 1, ChatError("ai error"), sent)
          ELSE IF ai.choices = <<>>
          THEN Out(stored, cnt + 1, ChatError("list index out of range"), sent)
          ELSE IF fault THEN Out(tbl, cnt, ChatError("storage error"), sent)
          ELSE Out(Insert(tbl, Journey(uuid4(cnt + 1), body.name.val,
                                       body.description.val,
                                       Some(FirstChoice(ai.choices)))),
                   cnt + 1,
                   Response(200, "", {}, {}, Some(FirstChoice(ai.choices)), ""),
                   sent)

\* POST /journey/chat. ai is what the collaborator does when called, fault
\* whether db.commit() raises (the uuid drawn for a row that was never stored
\* has been seen by nobody, and is not counted)
chat_with_mistral(tbl, cnt, body, ai, fault) ==
    IF ~JourneyCreate(body) THEN Out(tbl, cnt, Unprocessable(body), <<>>)
    ELSE
      LET sent == <<body.description.val>> IN
      IF ai.kind = "raise" THEN Out(tbl, cnt, ChatError("ai error"), sent)
      ELSE IF ai.choices = <<>>
      THEN Out(tbl, cnt, ChatError("list index out of range"), sent)
      ELSE
        LET ai_response == Some(FirstChoice(ai.choices))
            new_journey == Journey(uuid4(cnt + 1), body.name.val,
                                   body.description.val, ai_response)
        IN  IF fault THEN Out(tbl, cnt, ChatError("storage error"), sent)
            ELSE IF ~PrimaryKeyFree(tbl, new_journey.id)
            THEN Out(tbl, cnt + 1, ChatError("IntegrityError"), sent)
            ELSE Out(Insert(tbl, new_journey), cnt + 1,
                     Response(200, "", {}, {}, ai_response, ""), sent)

\* whether the handler gets as far as uuid.uuid4()
ChatDrawsUuid(body, ai) ==
    JourneyCreate(body) /\ ai.kind = "reply" /\ ai.choices # <<>>

\* mutant of create_journey: the body's ai_response stored with the record
create_journey_KeepsAi(tbl, cnt, body) ==
    IF ~JourneyCreate(body) THEN Out(tbl, cnt, Unprocessable(body), <<>>)
    ELSE
      LET db_journey == Journey(uuid4(cnt + 1), body.name.val,
                                body.description.val,
                                IF body.ai_response.kind = "str"
                                THEN Some(body.ai_response.val) ELSE None)
          tbl2 == Insert(tbl, db_journey)
      IN  Out(tbl2, cnt + 1, OkRows(QueryById(tbl2, db_journey.id)), <<>>)

\* POST /journeys/
create_journey(tbl, cnt, body) ==
    IF ~JourneyCreate(body) THEN Out(tbl, cnt, Unprocessable(body), <<>>)
    ELSE
      LET db_journey == Journey(uuid4(cnt + 1), body.name.val,
                                body.description.val, None)
      IN  IF ~PrimaryKeyFree(tbl, db_journey.id)
          THEN Out(tbl, cnt + 1, ServerError("Internal Server Error"), <<>>)
          ELSE LET tbl2 == Insert(tbl, db_journey)
               IN  Out(tbl2, cnt + 1, OkRows(QueryById(tbl2, db_journey.id)), <<>>)

\* GET /journeys/{journey_id}
read_journey(tbl, cnt, journey_id) ==
    LET journey == QueryById(tbl, journey_id)
    IN  IF journey = {} THEN Out(tbl, cnt, NotFound, <<>>)
        ELSE Out(tbl, cnt, OkRows(journey), <<>>)

\* GET /journeys/
read_journeys(tbl, cnt) == Out(tbl, cnt, OkRows(QueryAll(tbl)), <<>>)

\* PUT /journeys/{journey_id}
update_journey(tbl, cnt, journey_id, body) ==
    IF ~JourneyCreate(body) THEN Out(tbl, cnt, Unprocessable(body), <<>>)
    ELSE
      LET found == QueryById(tbl, journey_id)
      IN  IF found = {} THEN Out(tbl, cnt, NotFound, <<>>)
          ELSE
            LET db_journey == CHOOSE r \in found : TRUE
                assigned == UpdateAttrs(db_journey, body.name.val,
                                        body.description.val)
                tbl2 == FlushUpdate(tbl, db_journey, assigned)
            IN  Out(tbl2, cnt, OkRows(QueryById(tbl2, assigned.id)), <<>>)

\* DELETE /journeys/{journey_id}
delete_journey(tbl, cnt, journey_id) ==
    LET found == QueryById(tbl, journey_id)
    IN  IF found = {} THEN Out(tbl, cnt, NotFound, <<>>)
        ELSE Out(Delete(tbl, journey_id), cnt,
                 Response(200, "", {}, {}, None, "Journey deleted successfully"),
                 <<>>)

(***************************************************************************)
(* Requests served one at a time                                           *)
(***************************************************************************)
\* the two concurrent update requests of SpecConc
Procs == {1, 2}

Request(op, id, body, ai, fault) ==
    [op |-> op, id |-> id, body |-> body, ai |-> ai, fault |-> fault]

NoRequest == Request("none", "", NoBody, NoAI, FALSE)

ConcIdle ==
    /\ pc = [p \in Procs |-> "idle"]
    /\ loaded = [p \in Procs |-> {}]
    /\ ubody = [p \in Procs |-> NoBody]
    /\ uresp = [p \in Procs |-> NoResp]
    /\ order = <<>>

Init ==
    /\ table = {}
    /\ uuidCount = 0
    /\ req = NoRequest
    /\ resp = NoResp
    /\ aiSent = <<>>
    /\ origin = <<>>
    /\ deleted = {}
    /\ ConcIdle

\* The state after request r was served with outcome out, history included:
\* the ids the request added get their creation path and the reply text the
\* collaborator gave (taken from the request, not from the stored row)
Serve(r, out) ==
    LET added == Ids(out.table) \ Ids(table)
        gone == Ids(table) \ Ids(out.table)
        ok == out.resp.status = 200
        reply == IF r.op = "chat" /\ r.ai.choices # <<>>
                 THEN Some(Head(r.ai.choices)) ELSE None
    IN  /\ table' = out.table
        /\ uuidCount' = out.uuidCount
        /\ req' = r
        /\ resp' = out.resp
        /\ aiSent' = out.aiSent
        /\ origin' = [i \in (DOMAIN origin \ gone) \cup added |->
                        IF i \in added THEN [path |-> r.op, reply |-> reply]
                        ELSE origin[i]]
        /\ deleted' = deleted \cup (IF ok /\ r.op = "delete" THEN {r.id} ELSE {})
        /\ UNCHANGED concVars

Create ==
    \E body \in Bodies :
        /\ JourneyCreate(body) => uuidCount < MaxUuid
        /\ Serve(Request("create", "", body, NoAI, FALSE),
                 create_journey(table, uuidCount, body))

Chat ==
    \E body \in Bodies :
      \E ai \in IF JourneyCreate(body) THEN AIOutcomes ELSE {NoAI} :
        \E fault \in IF ChatDrawsUuid(body, ai) THEN BOOLEAN ELSE {FALSE} :
          /\ ChatDrawsUuid(body, ai) => uuidCount < MaxUuid
          /\ Serve(Request("chat", "", body, ai, fault),
                   chat_with_mistral(table, uuidCount, body, ai, fault))

Read ==
    \E id \in PathIds :
        Serve(Request("read", id, NoBody, NoAI, FALSE),
              read_journey(table, uuidCount, id))

List ==
    Serve(Request("list", "", NoBody, NoAI, FALSE),
          read_journeys(table, uuidCount))

Update ==
    \E id \in PathIds :
      \E body \in Bodies :
        Serve(Request("update", id, body, NoAI, FALSE),
              update_journey(table, uuidCount, id, body))

DeleteReq ==
    \E id \in PathIds :
        Serve(Request("delete", id, NoBody, NoAI, FALSE),
              delete_journey(table, uuidCount, id))

Next == Create \/ Chat \/ Read \/ List \/ Update \/ DeleteReq

Spec == Init /\ [][Next]_vars

(***************************************************************************)
(* Two concurrent update requests on the same id                           *)
(***************************************************************************)
\* FastAPI runs each def handler on a worker thread with a session of its
\* own (get_db); a session's SELECT holds no lock once it has returned, so the
\* statements of two requests interleave freely, each statement atomic.

\* the id both requests address
ConcId == uuid4(1)

ConcBodies ==
    {[name |-> Text(n), description |-> Text(d), ai_response |-> Missing] :
        n \in Names, d \in Descs}

\* one stored record, created by either path, and two requests about to start
InitConc ==
    /\ \E n \in Names, d \in Descs, a \in {None, Some("Bonjour!")} :
        /\ table = {Journey(ConcId, n, d, a)}
        /\ origin = [i \in {ConcId} |->
                        [path |-> IF a = None THEN "create" ELSE "chat",
                         reply |-> a]]
    /\ uuidCount = 1
    /\ req = NoRequest
    /\ resp = NoResp
    /\ aiSent = <<>>
    /\ deleted = {}
    /\ ConcIdle

\* line 130: db_journey = db.query(Journey).filter(...).first(), and the
\* None check of lines 131-132
ConcQuery(p) ==
    /\ pc[p] = "idle"
    /\ \E body \in ConcBodies :
        /\ ubody' = [ubody EXCEPT ![p] = body]
        /\ loaded' = [loaded EXCEPT ![p] = QueryById(table, ConcId)]
        /\ IF QueryById(table, ConcId) = {}
           THEN /\ pc' = [pc EXCEPT ![p] = "done"]
                /\ uresp' = [uresp EXCEPT ![p] = NotFound]
           ELSE /\ pc' = [pc EXCEPT ![p] = "commit"]
                /\ UNCHANGED uresp
    /\ UNCHANGED <<order, seqVars>>

\* lines 133-135: the assignments on the loaded object, then db.commit()
ConcCommit(p) ==
    /\ pc[p] = "commit"
    /\ LET db_journey == CHOOSE r \in loaded[p] : TRUE
           assigned == UpdateAttrs(db_journey, ubody[p].name.val,
                                   ubody[p].description.val)
       IN  /\ table' = FlushUpdate(table, db_journey, assigned)
           /\ loaded' = [loaded EXCEPT ![p] = {assigned}]
    /\ order' = Append(order, p)
    /\ pc' = [pc EXCEPT ![p] = "refresh"]
    /\ UNCHANGED <<ubody, uresp, uuidCount, req, resp, aiSent, origin, deleted>>

\* lines 136-137: db.refresh(db_journey); return db_journey
ConcRefresh(p) ==
    /\ pc[p] = "refresh"
    /\ LET db_journey == CHOOSE r \in loaded[p] : TRUE
       IN  uresp' = [uresp EXCEPT ![p] = OkRows(QueryById(table, db_journey.id))]
    /\ pc' = [pc EXCEPT ![p] = "done"]
    /\ UNCHANGED <<loaded, ubody, order, seqVars>>

NextConc == \E p \in Procs : ConcQuery(p) \/ ConcCommit(p) \/ ConcRefresh(p)

SpecConc == InitConc /\ [][NextConc]_vars

\* both requests have returned
ConcDone == \A p \in Procs : pc[p] = "done"

\* C10: once two concurrent updates of the same id have both completed, the
\* stored name and description are both those of the update that committed
\* last, and id and aiResponse are what they were.
C10_LastWriterWins ==
    ConcDone =>
        \A r \in table :
            /\ r.id = ConcId
            /\ r.ai_response = origin[ConcId].reply
            /\ r.name = ubody[order[Len(order)]].name.val
            /\ r.description = ubody[order[Len(order)]].description.val

(***************************************************************************)
(* Properties of the requests served one at a time                         *)
(***************************************************************************)
\* a body that passes the presence/type checks, as the claims word it
WellFormed(body) == body.name.kind = "str" /\ body.description.kind = "str"

\* the collaborator raised, or returned no completion
AIFailed(ai) == ai.kind = "raise" \/ (ai.kind = "reply" /\ ai.choices = <<>>)

\* the collaborator returned a completion
AIReplied(ai) == ai.kind = "reply" /\ ai.choices # <<>>

EmptyText(v) == v = None \/ v = Some("")

\* C1: a chat-create on which the AI collaborator raises or fails ends with
\* HTTP 500 and leaves the set of stored records exactly as it was.
C1_AIFailureWritesNothing ==
    [][(req'.op = "chat" /\ WellFormed(req'.body) /\ AIFailed(req'.ai))
         => (resp'.status = 500 /\ table' = table)]_vars

C1_Witness ==
    /\ req.op = "chat"
    /\ req.ai.kind = "raise"
    /\ resp.status = 500
    /\ aiSent # <<>>
    /\ table # {}

\* C2: a valid update of a stored id leaves the record with the same id and
\* aiResponse, with the request's name and description (also when the body
\* carries an ai_response), returns it, and changes no other record.
C2_UpdateFrame ==
    [][(req'.op = "update" /\ WellFormed(req'.body) /\ req'.id \in Ids(table))
         => \E old \in table :
              /\ old.id = req'.id
              /\ LET new == Journey(old.id, req'.body.name.val,
                                    req'.body.description.val, old.ai_response)
                 IN  /\ table' = (table \ {old}) \cup {new}
                     /\ resp' = OkRows({new})]_vars

C2_Witness ==
    /\ req.op = "update"
    /\ req.body.ai_response.kind = "str"
    /\ resp.status = 200
    /\ \E r \in table : r.id = req.id /\ r.ai_response = Some("Bonjour!")
    /\ Cardinality(table) = 2

\* C3 as stated: a stored record has a non-empty aiResponse exactly when it
\* was created through chat-create, its value being the AI reply of that
\* creation; a record of plain create has an empty aiResponse.
C3_NonEmptyIffChat ==
    \A r \in table :
        /\ ~EmptyText(r.ai_response) <=> origin[r.id].path = "chat"
        /\ origin[r.id].path = "chat" => r.ai_response = origin[r.id].reply
        /\ origin[r.id].path = "create" => EmptyText(r.ai_response)

\* C3 as amended: a record created through chat-create carries the AI reply
\* text of that creation as aiResponse (non-empty exactly when that text is),
\* a record created through plain create has no aiResponse, whatever
\* ai_response the client sent; no later request changes either.
C3_AiResponseIsCreationReply ==
    \A r \in table :
        /\ origin[r.id].path \in {"chat", "create"}
        /\ origin[r.id].path = "chat" =>
              /\ r.ai_response = origin[r.id].reply
              /\ r.ai_response # None
        /\ origin[r.id].path = "create" => r.ai_response = None

C3_Witness ==
    /\ req.op = "update"
    /\ req.body.ai_response.kind = "str"
    /\ resp.status = 200
    /\ \E r \in table : origin[r.id].path = "chat" /\ r.ai_response = Some("")
    /\ \E r \in table : origin[r.id].path = "create" /\ r.id = req.id

\* C4: no two stored records share an id; every valid create succeeds, and
\* every successful create or chat-create stores exactly one new record, under
\* a non-empty id that no record of the store carried, also when name and
\* description repeat; the ids of the stored records never change.
C4_UniqueStableIds ==
    [][/\ \A r1, r2 \in table' : r1.id = r2.id => r1 = r2
       /\ (req'.op = "create" /\ WellFormed(req'.body)) =>
            /\ resp'.status = 200
            /\ \E r \in resp'.rows :
                 /\ resp'.rows = {r}
                 /\ r.id # ""
                 /\ r.id \notin Ids(table)
                 /\ table' = table \cup {r}
       /\ (req'.op = "chat" /\ resp'.status = 200) =>
            \E r \in table' :
                 /\ r.id # ""
                 /\ r.id \notin Ids(table)
                 /\ table' = table \cup {r}
       /\ IF req'.op = "delete" /\ resp'.status = 200
          THEN Ids(table') = Ids(table) \ {req'.id}
          ELSE Ids(table) \subseteq Ids(table')
      ]_vars

C4_Witness ==
    /\ req.op = "create"
    /\ resp.status = 200
    /\ \E r1, r2 \in table :
         /\ r1.id # r2.id
         /\ r1.name = r2.name
         /\ r1.description = r2.description
         /\ r1 \in resp.rows

\* C5: right after a create or chat-create, a read of the new id returns that
\* id with the request's name and description (and, for chat-create, the
\* stored AI reply); and a request that is not a successful update or delete
\* of an id leaves what a read of that id returns unchanged. So a read with
\* no write to the id in between returns the values of the creation.
C5_CreateReadRoundTrip ==
    [][/\ (req'.op = "create" /\ resp'.status = 200) =>
            \A r \in resp'.rows :
                read_journey(table', uuidCount', r.id).resp =
                    OkRows({Journey(r.id, req'.body.name.val,
                                    req'.body.description.val, None)})
       /\ (req'.op = "chat" /\ resp'.status = 200) =>
            /\ Ids(table') # Ids(table)
            /\ \A id \in Ids(table') \ Ids(table) :
                read_journey(table', uuidCount', id).resp =
                    OkRows({Journey(id, req'.body.name.val,
                                    req'.body.description.val,
                                    Some(Head(req'.ai.choices)))})
       /\ \A id \in Ids(table) :
            ~(req'.op \in {"update", "delete"} /\ req'.id = id
              /\ resp'.status = 200)
            => read_journey(table', uuidCount', id).resp =
                    read_journey(table, uuidCount, id).resp
       /\ req'.op = "read" =>
            resp' = read_journey(table, uuidCount, req'.id).resp
      ]_vars

C5_Witness ==
    /\ req.op = "read"
    /\ resp.status = 200
    /\ \E r \in resp.rows :
         /\ r.id = req.id
         /\ r.ai_response = Some("Bonjour!")
         /\ origin[r.id].path = "chat"
    /\ Cardinality(table) = 2

\* C6: an id removed by a successful delete is in the store no more: from
\* then on a read, a (well-formed) update or a delete of it returns 404
\* "Journey not found" and no list shows it; and a read, update or delete of
\* any id that is not in the store returns 404 and leaves the store unchanged.
C6_DeletedStaysGone ==
    /\ \A id \in deleted :
         /\ id \notin Ids(table)
         /\ \A r \in read_journeys(table, uuidCount).resp.rows : r.id # id
    /\ \A id \in (PathIds \cup deleted) \ Ids(table) :
         /\ read_journey(table, uuidCount, id) =
                Out(table, uuidCount, NotFound, <<>>)
         /\ delete_journey(table, uuidCount, id) =
                Out(table, uuidCount, NotFound, <<>>)
         /\ \A body \in ValidBodies :
                update_journey(table, uuidCount, id, body) =
                    Out(table, uuidCount, NotFound, <<>>)
    /\ (/\ req.op \in {"read", "update", "delete"}
        /\ req.op = "update" => WellFormed(req.body)
        /\ req.id \notin Ids(table)
        /\ ~(req.op = "delete" /\ resp.status = 200))
       => (resp.status = 404 /\ resp.detail = "Journey not found")

C6_Witness ==
    /\ req.op = "update"
    /\ WellFormed(req.body)
    /\ req.id \in deleted
    /\ resp.status = 404
    /\ table # {}

\* C7: a valid chat-create on which the collaborator replies (and the commit
\* goes through) answers {response: text of the first choice}, has sent the
\* request's description as the prompt, and adds exactly one record, with the
\* request's name and description and that text as aiResponse, which a list
\* then shows.
C7_ChatCreateStoresFirstChoice ==
    [][(req'.op = "chat" /\ WellFormed(req'.body) /\ AIReplied(req'.ai)
        /\ ~req'.fault)
         => LET text == Some(Head(req'.ai.choices))
            IN  /\ resp' = Response(200, "", {}, {}, text, "")
                /\ aiSent' = <<req'.body.description.val>>
                /\ \E r \in table' :
                     /\ r \notin table
                     /\ table' = table \cup {r}
                     /\ r.name = req'.body.name.val
                     /\ r.description = req'.body.description.val
                     /\ r.ai_response = text
                     /\ r \in read_journeys(table', uuidCount').resp.rows]_vars

C7_Witness ==
    /\ req.op = "chat"
    /\ Len(req.ai.choices) = 2
    /\ resp.status = 200
    /\ resp.response = Some("Bonjour!")
    /\ \E r \in table : r.ai_response = Some("Bonjour!")

\* C8 as stated: every chat-create that fails, a body failing validation
\* included, ends with HTTP 500.
C8_EveryChatFailureIs500 ==
    (req.op = "chat" /\ resp.status # 200) => resp.status = 500

\* C8 as amended: a chat-create that fails inside the handler (the AI call
\* or the storage) ends with HTTP 500 and the error's message in detail; one
\* whose body fails validation is rejected with 422 before the handler runs;
\* no chat-create failure ends with any other status.
C8_ChatFailureStatus ==
    (req.op = "chat" /\ resp.status # 200) =>
        IF WellFormed(req.body)
        THEN /\ resp.status = 500
             /\ resp.detail =
                  (IF req.ai.kind = "raise" THEN "ai error"
                   ELSE IF req.ai.choices = <<>> THEN "list index out of range"
                   ELSE "storage error")
             /\ AIReplied(req.ai) => req.fault
        ELSE resp.status = 422

C8_Witness ==
    /\ req.op = "chat"
    /\ req.fault
    /\ resp.status = 500
    /\ resp.detail = "storage error"

\* C9: a create, update or chat-create whose body fails the presence/type
\* checks is rejected with a 4xx status naming a field, the store unchanged
\* and the AI collaborator not called.
C9_MalformedRejectedFirst ==
    [][(req'.op \in {"create", "update", "chat"} /\ ~WellFormed(req'.body))
         => /\ resp'.status \in 400..499
            /\ resp'.loc # {}
            /\ resp'.loc =
                 {f \in {"name", "description"} : req'.body[f].kind # "str"}
            /\ table' = table
            /\ aiSent' = <<>>]_vars

C9_Witness ==
    /\ req.op = "chat"
    /\ ~WellFormed(req.body)
    /\ resp.status = 422
    /\ aiSent = <<>>
    /\ table # {}

====
